---- MODULE Spec2Model ----
(***************************************************************************)
(* The create-cluster workflow of pkg/workflows/create.go: Create.Run and  *)
(* the nine tasks of its chain, running against collaborators (provider,   *)
(* bootstrapper, cluster manager, addon manager, writer) whose calls can   *)
(* succeed or fail.  Every collaborator call is recorded in `calls`, so    *)
(* that orderings and "never called" properties are state predicates.      *)
(***************************************************************************)
EXTENDS Integers, Sequences, FiniteSets, TLC

\* ---------------------------------------------------------------- bounds
MaxRuns == 2
MaxAddonValidations == 2

\* ------------------------------------------------------------ vocabulary
ClusterNames == {"c1", "c2"}

Nil == "nil"

SetAndValidateTask == "setup-validate"
CreateBootStrapClusterTask == "bootstrap-cluster-init"
DeleteKindClusterTask == "delete-kind-cluster(kind)"
CreateWorkloadClusterTask == "workload-cluster-init"
MoveClusterManagementTask == "capi-management-move"
InstallEksaComponentsTask == "eksa-components-install"
InstallAddonManagerTask == "addon-manager-install"
WriteClusterConfigTask == "write-cluster-config"
DeleteBootstrapClusterTask == "delete-kind-cluster"

\* a *types.Cluster; NilCluster is the nil pointer
NilCluster == [Name |-> "", Kubeconfig |-> "nil"]

\* the literal &types.Cluster{Name: clusterSpec.Name} of the forceCleanup step
NamedCluster(spec) == [Name |-> spec.Name, Kubeconfig |-> ""]

\* the handle CreateBootstrapCluster returns for a spec
BootstrapHandle(spec) == [Name |-> spec.Name, Kubeconfig |-> "kind"]

\* the handle CreateWorkloadCluster returns for a spec
WorkloadHandle(spec) == [Name |-> spec.Name, Kubeconfig |-> "workload"]

\* error values: nil, the error of a failed collaborator call, and the
\* validation runner's combined error naming the failed validations
NoError == [src |-> "", names |-> {}]

Err(op) == [src |-> op, names |-> {}]

ValidationError(failed) == [src |-> "validations", names |-> failed]

\* ------------------------------------------------------------- variables
VARIABLES
  pc,              \* position of Create.Run: "idle", "chain", "returned"
  task,            \* the task the runner executes next, Nil when none
  commandContext,  \* the task.CommandContext of the run in flight
  clusterSpec,     \* Run's clusterSpec argument, as it was passed
  forceCleanup,    \* Run's forceCleanup argument
  returned,        \* the error Run returned
  calls,           \* collaborator calls of this run, in order
  executed,        \* tasks executed by this run, in order
  setErrors,       \* errors handed to SetError in this run, in order
  markSuccess,     \* logger.MarkSuccess("Cluster created!") was called
  kindClusters,    \* names of the bootstrap clusters that exist
  workloadClusters,\* names of the workload clusters that exist
  datacenterPaused,\* the provider's datacenter config is paused
  runnerValidations, \* the validations registered with this run's runner
  staleClusters,   \* the bootstrap clusters that existed when Run was called
  runs             \* number of Run invocations so far

vars == <<pc, task, commandContext, clusterSpec, forceCleanup, returned, calls, executed,
          setErrors, markSuccess, kindClusters, workloadClusters,
          datacenterPaused, runnerValidations,
          staleClusters, runs>>

\* the CommandContext literal built by Create.Run
NewCommandContext(spec) ==
  [ClusterSpec      |-> spec,
   BootstrapCluster |-> NilCluster,
   WorkloadCluster  |-> NilCluster,
   OriginalError    |-> NoError,
   Rollback         |-> FALSE]

\* a cluster.Spec as passed to Run
NewSpec(name) == [Name |-> name, Paused |-> FALSE]

\* ------------------------------------------- the state a task works on
\* Tasks are functions from the state they see to the state they leave,
\* with `next` the task they return.
Cur ==
  [cc |-> commandContext, calls |-> calls, setErrors |-> setErrors,
   markSuccess |-> markSuccess, kind |-> kindClusters,
   workload |-> workloadClusters, dcPaused |-> datacenterPaused,
   registered |-> runnerValidations,
   next |-> Nil, ret |-> NoError]

\* a collaborator call op(arg) with outcome ok
Invoke(s, op, arg, ok) ==
  [s EXCEPT !.calls = Append(@, [op |-> op, arg |-> arg, ok |-> ok])]

\* CommandContext.SetError: the first error is kept
SetError(s, err) ==
  [s EXCEPT !.cc.OriginalError = IF @ = NoError THEN err ELSE @,
            !.setErrors = Append(@, err)]

Return(s, t) == [s EXCEPT !.next = t]

\* Bootstrapper.CreateBootstrapCluster
CreateBootstrapCluster(s, spec, ok) ==
  LET s1 == Invoke(s, "CreateBootstrapCluster", NilCluster, ok)
  IN  IF ok THEN [s1 EXCEPT !.kind = @ \cup {spec.Name}] ELSE s1

\* Bootstrapper.DeleteBootstrapCluster
DeleteBootstrapCluster(s, cluster, ok) ==
  LET s1 == Invoke(s, "DeleteBootstrapCluster", cluster, ok)
  IN  IF ok THEN [s1 EXCEPT !.kind = @ \ {cluster.Name}] ELSE s1

\* ClusterManager.CreateWorkloadCluster
CreateWorkloadCluster(s, bootstrap, spec, ok) ==
  LET s1 == Invoke(s, "CreateWorkloadCluster", bootstrap, ok)
  IN  IF ok THEN [s1 EXCEPT !.workload = @ \cup {spec.Name}] ELSE s1

\* ------------------------------------------------------ validation runner
\* A validation is a deferred check; `ok` is the outcome its collaborator
\* call will have when the runner evaluates it.
ProviderValidationName == "Provider setup is valid"

AddonValidationName(i) == "addon validation " \o ToString(i)

AddonValidationOp(i) == "AddonManager.Validation " \o ToString(i)

\* SetAndValidateTask.providerValidation: one validation wrapping
\* Provider.SetupAndValidateCreateCluster
providerValidation(ok) ==
  <<[Name |-> ProviderValidationName,
     op   |-> "SetupAndValidateCreateCluster",
     ok   |-> ok]>>

\* AddonManager.Validations: one validation per outcome in oks
AddonValidations(oks) ==
  [i \in 1..Len(oks) |->
     [Name |-> AddonValidationName(i), op |-> AddonValidationOp(i), ok |-> oks[i]]]

\* Runner.Register
Register(registered, validations) == registered \o validations

\* the collaborator calls the runner makes: every validation, in order
RECURSIVE RunValidations(_, _)
RunValidations(s, validations) ==
  IF validations = <<>> THEN s
  ELSE RunValidations(
         Invoke(s, Head(validations).op, NilCluster, Head(validations).ok),
         Tail(validations))

\* the names of the validations whose result carries an error
FailedValidations(validations) ==
  {validations[i].Name : i \in {j \in 1..Len(validations) : ~validations[j].ok}}

\* Runner.Run: nil when nothing failed, else one error naming every failure
RunnerError(validations) ==
  IF FailedValidations(validations) = {} THEN NoError
  ELSE ValidationError(FailedValidations(validations))

\* faulty variant: a failed validation is recorded but the chain goes on
SetAndValidateTaskRun_Continues(s, providerOk, addonOks) ==
  LET runner == Register(Register(<<>>, providerValidation(providerOk)),
                         AddonValidations(addonOks))
      s1  == RunValidations([s EXCEPT !.registered = runner], runner)
      err == RunnerError(runner)
  IN  IF err # NoError
        THEN Return(SetError(s1, err), CreateBootStrapClusterTask)
        ELSE Return(s1, CreateBootStrapClusterTask)

\* faulty variant: the runner is run before the addon manager's validations
\* are registered
SetAndValidateTaskRun_RunsEarly(s, providerOk, addonOks) ==
  LET early  == Register(<<>>, providerValidation(providerOk))
      runner == Register(early, AddonValidations(addonOks))
      s1  == RunValidations([s EXCEPT !.registered = runner], early)
      err == RunnerError(early)
  IN  IF err # NoError
        THEN Return(SetError(s1, err), Nil)
        ELSE Return(s1, CreateBootStrapClusterTask)

\* ------------------------------------------------------------- the tasks
SetAndValidateTaskRun(s, providerOk, addonOks) ==
  LET runner == Register(Register(<<>>, providerValidation(providerOk)),
                         AddonValidations(addonOks))
      s1  == RunValidations([s EXCEPT !.registered = runner], runner)
      err == RunnerError(runner)
  IN  IF err # NoError
        THEN Return(SetError(s1, err), Nil)
        ELSE Return(s1, CreateBootStrapClusterTask)

\* faulty variant: BootstrapSetup is called before the cluster-api providers
\* are installed on the bootstrap cluster
CreateBootStrapClusterTaskRun_SetupFirst(s, optsOk, createOk, capiOk, setupOk) ==
  LET s1 == Invoke(s, "BootstrapClusterOpts", NilCluster, optsOk)
      s2 == CreateBootstrapCluster(s1, s.cc.ClusterSpec, createOk)
      bootstrapCluster == BootstrapHandle(s.cc.ClusterSpec)
      s3 == Invoke([s2 EXCEPT !.cc.BootstrapCluster = bootstrapCluster],
                   "BootstrapSetup", bootstrapCluster, setupOk)
      s4 == Invoke(s3, "InstallCapi", bootstrapCluster, capiOk)
  IN  IF ~optsOk   THEN Return(SetError(s1, Err("BootstrapClusterOpts")), Nil)
      ELSE IF ~createOk THEN Return(SetError(s2, Err("CreateBootstrapCluster")),
                                    DeleteKindClusterTask)
      ELSE IF ~setupOk  THEN Return(SetError(s3, Err("BootstrapSetup")),
                                    DeleteKindClusterTask)
      ELSE IF ~capiOk   THEN Return(SetError(s4, Err("InstallCapi")),
                                    DeleteKindClusterTask)
      ELSE Return(s4, CreateWorkloadClusterTask)

\* faulty variant: a failure after the bootstrap cluster exists ends the chain
\* instead of going to DeleteKindClusterTask
CreateBootStrapClusterTaskRun_NoCleanup(s, optsOk, createOk, capiOk, setupOk) ==
  LET s1 == Invoke(s, "BootstrapClusterOpts", NilCluster, optsOk)
      s2 == CreateBootstrapCluster(s1, s.cc.ClusterSpec, createOk)
      bootstrapCluster == BootstrapHandle(s.cc.ClusterSpec)
      s3 == Invoke([s2 EXCEPT !.cc.BootstrapCluster = bootstrapCluster],
                   "InstallCapi", bootstrapCluster, capiOk)
      s4 == Invoke(s3, "BootstrapSetup", bootstrapCluster, setupOk)
  IN  IF ~optsOk   THEN Return(SetError(s1, Err("BootstrapClusterOpts")), Nil)
      ELSE IF ~createOk THEN Return(SetError(s2, Err("CreateBootstrapCluster")),
                                    DeleteKindClusterTask)
      ELSE IF ~capiOk   THEN Return(SetError(s3, Err("InstallCapi")), Nil)
      ELSE IF ~setupOk  THEN Return(SetError(s4, Err("BootstrapSetup")), Nil)
      ELSE Return(s4, CreateWorkloadClusterTask)

\* faulty variant: the new bootstrap cluster is stored in both handles
CreateBootStrapClusterTaskRun_SetsWorkload(s, optsOk, createOk, capiOk, setupOk) ==
  LET s1 == Invoke(s, "BootstrapClusterOpts", NilCluster, optsOk)
      s2 == CreateBootstrapCluster(s1, s.cc.ClusterSpec, createOk)
      bootstrapCluster == BootstrapHandle(s.cc.ClusterSpec)
      s3 == Invoke([s2 EXCEPT !.cc.BootstrapCluster = bootstrapCluster,
                              !.cc.WorkloadCluster = bootstrapCluster],
                   "InstallCapi", bootstrapCluster, capiOk)
      s4 == Invoke(s3, "BootstrapSetup", bootstrapCluster, setupOk)
  IN  IF ~optsOk   THEN Return(SetError(s1, Err("BootstrapClusterOpts")), Nil)
      ELSE IF ~createOk THEN Return(SetError(s2, Err("CreateBootstrapCluster")),
                                    DeleteKindClusterTask)
      ELSE IF ~capiOk   THEN Return(SetError(s3, Err("InstallCapi")),
                                    DeleteKindClusterTask)
      ELSE IF ~setupOk  THEN Return(SetError(s4, Err("BootstrapSetup")),
                                    DeleteKindClusterTask)
      ELSE Return(s4, CreateWorkloadClusterTask)

CreateBootStrapClusterTaskRun(s, optsOk, createOk, capiOk, setupOk) ==
  LET s1 == Invoke(s, "BootstrapClusterOpts", NilCluster, optsOk)
      s2 == CreateBootstrapCluster(s1, s.cc.ClusterSpec, createOk)
      bootstrapCluster == BootstrapHandle(s.cc.ClusterSpec)
      s3 == Invoke([s2 EXCEPT !.cc.BootstrapCluster = bootstrapCluster],
                   "InstallCapi", bootstrapCluster, capiOk)
      s4 == Invoke(s3, "BootstrapSetup", bootstrapCluster, setupOk)
  IN  IF ~optsOk   THEN Return(SetError(s1, Err("BootstrapClusterOpts")), Nil)
      ELSE IF ~createOk THEN Return(SetError(s2, Err("CreateBootstrapCluster")),
                                    DeleteKindClusterTask)
      ELSE IF ~capiOk   THEN Return(SetError(s3, Err("InstallCapi")),
                                    DeleteKindClusterTask)
      ELSE IF ~setupOk  THEN Return(SetError(s4, Err("BootstrapSetup")),
                                    DeleteKindClusterTask)
      ELSE Return(s4, CreateWorkloadClusterTask)

\* faulty variant: the deletion is called without looking at the handle
DeleteKindClusterTaskRun_Unguarded(s, deleteOk) ==
  LET s1 == DeleteBootstrapCluster(s, s.cc.BootstrapCluster, deleteOk)
  IN  IF ~deleteOk
        THEN Return(SetError(s1, Err("DeleteBootstrapCluster")), Nil)
        ELSE Return(s1, Nil)

\* faulty variant: a failed deletion is tried again by the same task
DeleteKindClusterTaskRun_Retry(s, deleteOk) ==
  IF s.cc.BootstrapCluster # NilCluster
    THEN LET s1 == DeleteBootstrapCluster(s, s.cc.BootstrapCluster, deleteOk)
         IN  IF ~deleteOk
               THEN Return(SetError(s1, Err("DeleteBootstrapCluster")),
                           DeleteKindClusterTask)
               ELSE Return(s1, Nil)
    ELSE Return(s, Nil)

DeleteKindClusterTaskRun(s, deleteOk) ==
  IF s.cc.BootstrapCluster # NilCluster
    THEN LET s1 == DeleteBootstrapCluster(s, s.cc.BootstrapCluster, deleteOk)
         IN  IF ~deleteOk
               THEN Return(SetError(s1, Err("DeleteBootstrapCluster")), Nil)
               ELSE Return(s1, Nil)
    ELSE Return(s, Nil)

\* faulty variant: the created workload cluster is kept in a local variable
\* and never stored in the context
CreateWorkloadClusterTaskRun_ForgetsHandle(s, createOk, netOk, storageOk, capiOk, mhcOk) ==
  LET s1 == CreateWorkloadCluster(s, s.cc.BootstrapCluster, s.cc.ClusterSpec, createOk)
      workloadCluster == WorkloadHandle(s.cc.ClusterSpec)
      s2 == Invoke(s1, "InstallNetworking", workloadCluster, netOk)
      s3 == Invoke(s2, "InstallStorageClass", workloadCluster, storageOk)
      s4 == Invoke(s3, "InstallCapi", workloadCluster, capiOk)
      s5 == Invoke(s4, "InstallMachineHealthChecks", s4.cc.BootstrapCluster, mhcOk)
  IN  IF ~createOk  THEN Return(SetError(s1, Err("CreateWorkloadCluster")), Nil)
      ELSE IF ~netOk     THEN Return(SetError(s2, Err("InstallNetworking")), Nil)
      ELSE IF ~storageOk THEN Return(SetError(s3, Err("InstallStorageClass")), Nil)
      ELSE IF ~capiOk    THEN Return(SetError(s4, Err("InstallCapi")), Nil)
      ELSE IF ~mhcOk     THEN Return(SetError(s5, Err("InstallMachineHealthChecks")), Nil)
      ELSE Return(s5, MoveClusterManagementTask)

\* faulty variant: a networking failure is captured but the remaining
\* sub-steps are still carried out
CreateWorkloadClusterTaskRun_KeepsGoing(s, createOk, netOk, storageOk, capiOk, mhcOk) ==
  LET s1 == CreateWorkloadCluster(s, s.cc.BootstrapCluster, s.cc.ClusterSpec, createOk)
      workloadCluster == WorkloadHandle(s.cc.ClusterSpec)
      s2 == Invoke([s1 EXCEPT !.cc.WorkloadCluster = workloadCluster],
                   "InstallNetworking", workloadCluster, netOk)
      s2e == IF netOk THEN s2 ELSE SetError(s2, Err("InstallNetworking"))
      s3 == Invoke(s2e, "InstallStorageClass", workloadCluster, storageOk)
      s4 == Invoke(s3, "InstallCapi", s3.cc.WorkloadCluster, capiOk)
      s5 == Invoke(s4, "InstallMachineHealthChecks", s4.cc.BootstrapCluster, mhcOk)
  IN  IF ~createOk  THEN Return(SetError(s1, Err("CreateWorkloadCluster")), Nil)
      ELSE IF ~storageOk THEN Return(SetError(s3, Err("InstallStorageClass")), Nil)
      ELSE IF ~capiOk    THEN Return(SetError(s4, Err("InstallCapi")), Nil)
      ELSE IF ~mhcOk     THEN Return(SetError(s5, Err("InstallMachineHealthChecks")), Nil)
      ELSE IF ~netOk     THEN Return(s5, Nil)
      ELSE Return(s5, MoveClusterManagementTask)

\* faulty variant: a failed workload stage goes to DeleteKindClusterTask, as the
\* bootstrap stage does
CreateWorkloadClusterTaskRun_Cleanup(s, createOk, netOk, storageOk, capiOk, mhcOk) ==
  LET s1 == CreateWorkloadCluster(s, s.cc.BootstrapCluster, s.cc.ClusterSpec, createOk)
      workloadCluster == WorkloadHandle(s.cc.ClusterSpec)
      s2 == Invoke([s1 EXCEPT !.cc.WorkloadCluster = workloadCluster],
                   "InstallNetworking", workloadCluster, netOk)
      s3 == Invoke(s2, "InstallStorageClass", workloadCluster, storageOk)
      s4 == Invoke(s3, "InstallCapi", s3.cc.WorkloadCluster, capiOk)
      s5 == Invoke(s4, "InstallMachineHealthChecks", s4.cc.BootstrapCluster, mhcOk)
  IN  IF ~createOk  THEN Return(SetError(s1, Err("CreateWorkloadCluster")),
                                DeleteKindClusterTask)
      ELSE IF ~netOk     THEN Return(SetError(s2, Err("InstallNetworking")),
                                     DeleteKindClusterTask)
      ELSE IF ~storageOk THEN Return(SetError(s3, Err("InstallStorageClass")),
                                     DeleteKindClusterTask)
      ELSE IF ~capiOk    THEN Return(SetError(s4, Err("InstallCapi")),
                                     DeleteKindClusterTask)
      ELSE IF ~mhcOk     THEN Return(SetError(s5, Err("InstallMachineHealthChecks")),
                                     DeleteKindClusterTask)
      ELSE Return(s5, MoveClusterManagementTask)

CreateWorkloadClusterTaskRun(s, createOk, netOk, storageOk, capiOk, mhcOk) ==
  LET s1 == CreateWorkloadCluster(s, s.cc.BootstrapCluster, s.cc.ClusterSpec, createOk)
      workloadCluster == WorkloadHandle(s.cc.ClusterSpec)
      s2 == Invoke([s1 EXCEPT !.cc.WorkloadCluster = workloadCluster],
                   "InstallNetworking", workloadCluster, netOk)
      s3 == Invoke(s2, "InstallStorageClass", workloadCluster, storageOk)
      s4 == Invoke(s3, "InstallCapi", s3.cc.WorkloadCluster, capiOk)
      s5 == Invoke(s4, "InstallMachineHealthChecks", s4.cc.BootstrapCluster, mhcOk)
  IN  IF ~createOk  THEN Return(SetError(s1, Err("CreateWorkloadCluster")), Nil)
      ELSE IF ~netOk     THEN Return(SetError(s2, Err("InstallNetworking")), Nil)
      ELSE IF ~storageOk THEN Return(SetError(s3, Err("InstallStorageClass")), Nil)
      ELSE IF ~capiOk    THEN Return(SetError(s4, Err("InstallCapi")), Nil)
      ELSE IF ~mhcOk     THEN Return(SetError(s5, Err("InstallMachineHealthChecks")), Nil)
      ELSE Return(s5, MoveClusterManagementTask)

\* faulty variant: reconciliation is paused on the cluster spec before the
\* management components are moved
MoveClusterManagementTaskRun_PausesSpec(s, moveOk) ==
  LET p1 == [s EXCEPT !.cc.ClusterSpec.Paused = TRUE]
      s1 == Invoke(p1, "MoveCapi", s.cc.BootstrapCluster, moveOk)
  IN  IF ~moveOk THEN Return(SetError(s1, Err("MoveCapi")), Nil)
      ELSE Return(s1, InstallEksaComponentsTask)

\* faulty variant: the failure branch captures the error but does not end
\* the chain
MoveClusterManagementTaskRun_Continues(s, moveOk) ==
  LET s1 == Invoke(s, "MoveCapi", s.cc.BootstrapCluster, moveOk)
  IN  IF ~moveOk THEN Return(SetError(s1, Err("MoveCapi")), InstallEksaComponentsTask)
      ELSE Return(s1, InstallEksaComponentsTask)

\* faulty variant: a failed move rolls the workload cluster back
MoveClusterManagementTaskRun_Rollback(s, moveOk) ==
  LET s1 == Invoke(s, "MoveCapi", s.cc.BootstrapCluster, moveOk)
  IN  IF ~moveOk
        THEN Return(SetError([s1 EXCEPT !.cc.WorkloadCluster = NilCluster,
                                        !.workload = @ \ {s.cc.ClusterSpec.Name}],
                             Err("MoveCapi")), Nil)
        ELSE Return(s1, InstallEksaComponentsTask)

MoveClusterManagementTaskRun(s, moveOk) ==
  LET s1 == Invoke(s, "MoveCapi", s.cc.BootstrapCluster, moveOk)
  IN  IF ~moveOk THEN Return(SetError(s1, Err("MoveCapi")), Nil)
      ELSE Return(s1, InstallEksaComponentsTask)

\* faulty variant: the EKS-A resources are created before reconciliation is
\* paused
InstallEksaComponentsTaskRun_PausesLate(s, installOk, createOk, resumeOk) ==
  LET s1 == Invoke(s, "InstallCustomComponents", s.cc.WorkloadCluster, installOk)
      s2 == Invoke(s1, "CreateEKSAResources", s.cc.WorkloadCluster, createOk)
      p1 == [Invoke(s2, "ClusterSpec.PauseReconcile", NilCluster, TRUE)
               EXCEPT !.cc.ClusterSpec.Paused = TRUE]
      p2 == [Invoke(p1, "DatacenterConfig.PauseReconcile", NilCluster, TRUE)
               EXCEPT !.dcPaused = TRUE]
      s3 == Invoke(p2, "ResumeEKSAControllerReconcile", s.cc.WorkloadCluster, resumeOk)
  IN  IF ~installOk THEN Return(SetError(s1, Err("InstallCustomComponents")), Nil)
      ELSE IF ~createOk THEN Return(SetError(p2, Err("CreateEKSAResources")), Nil)
      ELSE IF ~resumeOk THEN Return(SetError(s3, Err("ResumeEKSAControllerReconcile")), Nil)
      ELSE Return(s3, InstallAddonManagerTask)

InstallEksaComponentsTaskRun(s, installOk, createOk, resumeOk) ==
  LET s1 == Invoke(s, "InstallCustomComponents", s.cc.WorkloadCluster, installOk)
      \* ClusterSpec.PauseReconcile() and datacenterConfig.PauseReconcile()
      p1 == [Invoke(s1, "ClusterSpec.PauseReconcile", NilCluster, TRUE)
               EXCEPT !.cc.ClusterSpec.Paused = TRUE]
      p2 == [Invoke(p1, "DatacenterConfig.PauseReconcile", NilCluster, TRUE)
               EXCEPT !.dcPaused = TRUE]
      s2 == Invoke(p2, "CreateEKSAResources", s.cc.WorkloadCluster, createOk)
      s3 == Invoke(s2, "ResumeEKSAControllerReconcile", s.cc.WorkloadCluster, resumeOk)
  IN  IF ~installOk THEN Return(SetError(s1, Err("InstallCustomComponents")), Nil)
      ELSE IF ~createOk THEN Return(SetError(s2, Err("CreateEKSAResources")), Nil)
      ELSE IF ~resumeOk THEN Return(SetError(s3, Err("ResumeEKSAControllerReconcile")), Nil)
      ELSE Return(s3, InstallAddonManagerTask)

\* faulty variant: a GitOps failure is captured like any other failure
InstallAddonManagerTaskRun_SetsError(s, gitOpsOk) ==
  LET s1 == Invoke(s, "InstallGitOps", s.cc.WorkloadCluster, gitOpsOk)
  IN  IF ~gitOpsOk THEN Return(SetError(s1, Err("InstallGitOps")), WriteClusterConfigTask)
      ELSE Return(s1, WriteClusterConfigTask)

\* faulty variant: a GitOps failure ends the chain
InstallAddonManagerTaskRun_Terminal(s, gitOpsOk) ==
  LET s1 == Invoke(s, "InstallGitOps", s.cc.WorkloadCluster, gitOpsOk)
  IN  IF ~gitOpsOk THEN Return(s1, Nil)
      ELSE Return(s1, WriteClusterConfigTask)

InstallAddonManagerTaskRun(s, gitOpsOk) ==
  LET s1 == Invoke(s, "InstallGitOps", s.cc.WorkloadCluster, gitOpsOk)
  IN  IF ~gitOpsOk THEN Return(s1, WriteClusterConfigTask)
      ELSE Return(s1, WriteClusterConfigTask)

\* faulty variant: a write failure is dropped instead of captured
WriteClusterConfigTaskRun_NoSetError(s, writeOk) ==
  LET s1 == Invoke(s, "WriteClusterConfig", NilCluster, writeOk)
  IN  Return(s1, DeleteBootstrapClusterTask)

\* faulty variant: a write failure ends the chain, as the earlier stages' failures do
WriteClusterConfigTaskRun_Terminal(s, writeOk) ==
  LET s1 == Invoke(s, "WriteClusterConfig", NilCluster, writeOk)
  IN  IF ~writeOk
        THEN Return(SetError(s1, Err("WriteClusterConfig")), Nil)
        ELSE Return(s1, DeleteBootstrapClusterTask)

WriteClusterConfigTaskRun(s, writeOk) ==
  LET s1 == Invoke(s, "WriteClusterConfig", NilCluster, writeOk)
  IN  IF ~writeOk
        THEN Return(SetError(s1, Err("WriteClusterConfig")), DeleteBootstrapClusterTask)
        ELSE Return(s1, DeleteBootstrapClusterTask)

\* faulty variant: the deletion error is assigned to OriginalError directly
DeleteBootstrapClusterTaskRun_Overwrite(s, deleteOk) ==
  LET s1 == DeleteBootstrapCluster(s, s.cc.BootstrapCluster, deleteOk)
      s2 == IF ~deleteOk
              THEN [s1 EXCEPT !.cc.OriginalError = Err("DeleteBootstrapCluster")]
              ELSE s1
      s3 == IF s2.cc.OriginalError = NoError
              THEN [s2 EXCEPT !.markSuccess = TRUE] ELSE s2
  IN  Return(s3, Nil)

\* faulty variant: a failed deletion is handed to DeleteKindClusterTask for another try
DeleteBootstrapClusterTaskRun_Retry(s, deleteOk) ==
  LET s1 == DeleteBootstrapCluster(s, s.cc.BootstrapCluster, deleteOk)
      s2 == IF ~deleteOk THEN SetError(s1, Err("DeleteBootstrapCluster")) ELSE s1
      s3 == IF s2.cc.OriginalError = NoError
              THEN [s2 EXCEPT !.markSuccess = TRUE] ELSE s2
  IN  Return(s3, IF ~deleteOk THEN DeleteKindClusterTask ELSE Nil)

\* faulty variant: the handle is cleared once the deletion succeeded
DeleteBootstrapClusterTaskRun_ClearsHandle(s, deleteOk) ==
  LET s1 == DeleteBootstrapCluster(s, s.cc.BootstrapCluster, deleteOk)
      s2 == IF ~deleteOk THEN SetError(s1, Err("DeleteBootstrapCluster"))
            ELSE [s1 EXCEPT !.cc.BootstrapCluster = NilCluster]
      s3 == IF s2.cc.OriginalError = NoError
              THEN [s2 EXCEPT !.markSuccess = TRUE] ELSE s2
  IN  Return(s3, Nil)

\* faulty variant: success is marked when the deletion returned no error
DeleteBootstrapClusterTaskRun_MarksOnDeleteOk(s, deleteOk) ==
  LET s1 == DeleteBootstrapCluster(s, s.cc.BootstrapCluster, deleteOk)
      s2 == IF ~deleteOk THEN SetError(s1, Err("DeleteBootstrapCluster")) ELSE s1
      s3 == IF deleteOk THEN [s2 EXCEPT !.markSuccess = TRUE] ELSE s2
  IN  Return(s3, Nil)

DeleteBootstrapClusterTaskRun(s, deleteOk) ==
  LET s1 == DeleteBootstrapCluster(s, s.cc.BootstrapCluster, deleteOk)
      s2 == IF ~deleteOk THEN SetError(s1, Err("DeleteBootstrapCluster")) ELSE s1
      s3 == IF s2.cc.OriginalError = NoError
              THEN [s2 EXCEPT !.markSuccess = TRUE] ELSE s2
  IN  Return(s3, Nil)

\* ------------------------------------------------------------ Create.Run
\* the context of a Create on which Run has not built one yet
NoContext == NewCommandContext(NewSpec(""))

\* TaskRunner.RunTask returns the context's OriginalError once a task
\* returned no successor
RunTaskResult(s) == s.cc.OriginalError

\* faulty variant: a run that cleaned up first starts the chain in rollback mode
RunBegin_ForcedRollback(s, spec, force, deleteOk) ==
  LET fresh == [s EXCEPT !.calls = <<>>, !.setErrors = <<>>, !.registered = <<>>,
                         !.markSuccess = FALSE, !.cc = NoContext]
      s1 == IF force THEN DeleteBootstrapCluster(fresh, NamedCluster(spec), deleteOk)
            ELSE fresh
  IN  IF force /\ ~deleteOk
        THEN Return([s1 EXCEPT !.ret = Err("DeleteBootstrapCluster")], Nil)
        ELSE Return([s1 EXCEPT !.cc = [NewCommandContext(spec) EXCEPT !.Rollback = force]],
                    SetAndValidateTask)

\* faulty variant: the error of the forceCleanup deletion is ignored
RunBegin_IgnoresDeleteError(s, spec, force, deleteOk) ==
  LET fresh == [s EXCEPT !.calls = <<>>, !.setErrors = <<>>, !.registered = <<>>,
                         !.markSuccess = FALSE, !.cc = NoContext]
      s1 == IF force THEN DeleteBootstrapCluster(fresh, NamedCluster(spec), deleteOk)
            ELSE fresh
  IN  Return([s1 EXCEPT !.cc = NewCommandContext(spec)], SetAndValidateTask)

\* faulty variant: forceCleanup is not looked at
RunBegin_SkipsForceCleanup(s, spec, force, deleteOk) ==
  LET fresh == [s EXCEPT !.calls = <<>>, !.setErrors = <<>>, !.registered = <<>>,
                         !.markSuccess = FALSE, !.cc = NoContext]
  IN  Return([fresh EXCEPT !.cc = NewCommandContext(spec)], SetAndValidateTask)

\* Create.Run up to the call of RunTask: the forceCleanup deletion and the
\* construction of the context; next = Nil when Run returned already
RunBegin(s, spec, force, deleteOk) ==
  LET fresh == [s EXCEPT !.calls = <<>>, !.setErrors = <<>>, !.registered = <<>>,
                         !.markSuccess = FALSE, !.cc = NoContext]
      s1 == IF force THEN DeleteBootstrapCluster(fresh, NamedCluster(spec), deleteOk)
            ELSE fresh
  IN  IF force /\ ~deleteOk
        THEN Return([s1 EXCEPT !.ret = Err("DeleteBootstrapCluster")], Nil)
        ELSE Return([s1 EXCEPT !.cc = NewCommandContext(spec)], SetAndValidateTask)

\* faulty variant: the logs are collected from the workload cluster
RunEnd_SavesWorkloadLogs(s, saveOk) ==
  LET err == RunTaskResult(s)
      s1  == IF err # NoError
               THEN Invoke(s, "SaveLogs", s.cc.WorkloadCluster, saveOk)
               ELSE s
  IN  [s1 EXCEPT !.ret = err]

\* faulty variant: a SaveLogs failure is returned in place of the captured error
RunEnd_ReturnsSaveLogsError(s, saveOk) ==
  LET err == RunTaskResult(s)
      s1  == IF err # NoError
               THEN Invoke(s, "SaveLogs", s.cc.BootstrapCluster, saveOk)
               ELSE s
  IN  [s1 EXCEPT !.ret = IF err # NoError /\ ~saveOk THEN Err("SaveLogs") ELSE err]

\* Create.Run after RunTask returned err: log collection and the return
RunEnd(s, saveOk) ==
  LET err == RunTaskResult(s)
      s1  == IF err # NoError
               THEN Invoke(s, "SaveLogs", s.cc.BootstrapCluster, saveOk)
               ELSE s
  IN  [s1 EXCEPT !.ret = err]

\* --------------------------------------------------------------- actions
\* what a step of the run writes back
Commit(r) ==
  /\ commandContext' = r.cc
  /\ calls' = r.calls
  /\ setErrors' = r.setErrors
  /\ markSuccess' = r.markSuccess
  /\ kindClusters' = r.kind
  /\ workloadClusters' = r.workload
  /\ datacenterPaused' = r.dcPaused
  /\ runnerValidations' = r.registered

\* one iteration of the RunTask loop: task t runs and names its successor
RunTaskStep(t, r) ==
  /\ pc = "chain"
  /\ task = t
  /\ Commit(r)
  /\ task' = r.next
  /\ executed' = Append(executed, t)
  /\ UNCHANGED <<pc, clusterSpec, forceCleanup, returned, staleClusters, runs>>

\* the outcome lists of up to n addon-manager validations
OutcomeSeqs(n) == UNION {[1..k -> BOOLEAN] : k \in 0..n}

Run ==
  /\ pc \in {"idle", "returned"}
  /\ runs < MaxRuns
  /\ \E name \in ClusterNames, force \in BOOLEAN :
       \E deleteOk \in (IF force THEN BOOLEAN ELSE {TRUE}) :
         LET r == RunBegin(Cur, NewSpec(name), force, deleteOk)
         IN  /\ Commit(r)
             /\ clusterSpec' = NewSpec(name)
             /\ forceCleanup' = force
             /\ staleClusters' = kindClusters
             /\ executed' = <<>>
             /\ runs' = runs + 1
             /\ task' = r.next
             /\ IF r.next = Nil
                  THEN pc' = "returned" /\ returned' = r.ret
                  ELSE pc' = "chain" /\ returned' = NoError

SetAndValidate ==
  \E providerOk \in BOOLEAN, addonOks \in OutcomeSeqs(MaxAddonValidations) :
    RunTaskStep(SetAndValidateTask, SetAndValidateTaskRun(Cur, providerOk, addonOks))

CreateBootStrapCluster ==
  \E optsOk, createOk, capiOk, setupOk \in BOOLEAN :
    RunTaskStep(CreateBootStrapClusterTask,
                CreateBootStrapClusterTaskRun(Cur, optsOk, createOk, capiOk, setupOk))

DeleteKindCluster ==
  \E deleteOk \in BOOLEAN :
    RunTaskStep(DeleteKindClusterTask, DeleteKindClusterTaskRun(Cur, deleteOk))

CreateWorkload ==
  \E createOk, netOk, storageOk, capiOk, mhcOk \in BOOLEAN :
    RunTaskStep(CreateWorkloadClusterTask,
                CreateWorkloadClusterTaskRun(Cur, createOk, netOk, storageOk, capiOk, mhcOk))

MoveClusterManagement ==
  \E moveOk \in BOOLEAN :
    RunTaskStep(MoveClusterManagementTask, MoveClusterManagementTaskRun(Cur, moveOk))

InstallEksaComponents ==
  \E installOk, createOk, resumeOk \in BOOLEAN :
    RunTaskStep(InstallEksaComponentsTask,
                InstallEksaComponentsTaskRun(Cur, installOk, createOk, resumeOk))

InstallAddonManager ==
  \E gitOpsOk \in BOOLEAN :
    RunTaskStep(InstallAddonManagerTask, InstallAddonManagerTaskRun(Cur, gitOpsOk))

WriteClusterConfig ==
  \E writeOk \in BOOLEAN :
    RunTaskStep(WriteClusterConfigTask, WriteClusterConfigTaskRun(Cur, writeOk))

DeleteBootstrap ==
  \E deleteOk \in BOOLEAN :
    RunTaskStep(DeleteBootstrapClusterTask, DeleteBootstrapClusterTaskRun(Cur, deleteOk))

\* RunTask's loop ended: Run collects logs on error and returns
RunReturn ==
  /\ pc = "chain"
  /\ task = Nil
  /\ \E saveOk \in (IF RunTaskResult(Cur) # NoError THEN BOOLEAN ELSE {TRUE}) :
       LET r == RunEnd(Cur, saveOk)
       IN  /\ Commit(r)
           /\ returned' = r.ret
  /\ pc' = "returned"
  /\ UNCHANGED <<task, clusterSpec, forceCleanup, executed, staleClusters, runs>>

Init ==
  /\ pc = "idle"
  /\ task = Nil
  /\ commandContext = NoContext
  /\ clusterSpec = NewSpec("")
  /\ forceCleanup = FALSE
  /\ returned = NoError
  /\ calls = <<>>
  /\ executed = <<>>
  /\ setErrors = <<>>
  /\ markSuccess = FALSE
  /\ kindClusters = {}
  /\ workloadClusters = {}
  /\ datacenterPaused = FALSE
  /\ runnerValidations = <<>>
  /\ staleClusters = {}
  /\ runs = 0

Next ==
  \/ Run
  \/ SetAndValidate
  \/ CreateBootStrapCluster
  \/ DeleteKindCluster
  \/ CreateWorkload
  \/ MoveClusterManagement
  \/ InstallEksaComponents
  \/ InstallAddonManager
  \/ WriteClusterConfig
  \/ DeleteBootstrap
  \/ RunReturn

Spec == Init /\ [][Next]_vars

\* ================================================================= claims
Last(seq) == seq[Len(seq)]

Range(seq) == {seq[i] : i \in 1..Len(seq)}

\* the chain of this run has run at least one task and has no task left
ChainEnded == executed # <<>> /\ task = Nil

\* positions of the collaborator calls named op
CallsOf(op) == {i \in 1..Len(calls) : calls[i].op = op}

\* positions of the failed calls that count as failures of the run
Failures ==
  {i \in 1..Len(calls) : ~calls[i].ok /\ calls[i].op \notin {"InstallGitOps", "SaveLogs"}}

FirstFailure == calls[CHOOSE i \in Failures : \A j \in Failures : i <= j]

\* positions of the DeleteBootstrapCluster calls the tasks made on the
\* context's handle (the forceCleanup step passes a bare named cluster)
ChainDeletes ==
  {i \in CallsOf("DeleteBootstrapCluster") :
     calls[i].arg = commandContext.BootstrapCluster}

ValidationOps ==
  {"SetupAndValidateCreateCluster"} \cup
  {AddonValidationOp(i) : i \in 1..MaxAddonValidations}

\* the names of the validations whose call failed, read off the call log
FailedValidationNames ==
  {ProviderValidationName : i \in {j \in CallsOf("SetupAndValidateCreateCluster") : ~calls[j].ok}}
  \cup {AddonValidationName(k) :
          k \in {n \in 1..MaxAddonValidations :
                   \E j \in CallsOf(AddonValidationOp(n)) : ~calls[j].ok}}

\* C1: first error wins -- whatever sequence of errors SetError was handed
\* during a run, the captured error is the first of them.
C1_FirstErrorWins ==
  setErrors # <<>> => commandContext.OriginalError = Head(setErrors)

\* C1 witness: SetError was called twice with different errors and the
\* first is the one captured.
C1_Witness ==
  /\ Len(setErrors) >= 2
  /\ setErrors[2] # setErrors[1]
  /\ commandContext.OriginalError = setErrors[1]

\* C2 (as stated): without forceCleanup, Run returns no error iff no call
\* other than InstallGitOps and SaveLogs failed, and otherwise returns
\* exactly the error of the call that failed first.
C2_Original ==
  (pc = "returned" /\ ~forceCleanup) =>
     /\ (returned = NoError) <=> (Failures = {})
     /\ Failures # {} => returned = Err(FirstFailure.op)

\* C2 (amended): as stated, except that when the first failure is a
\* validation the returned error is the validation runner's combined error
\* naming every failed validation, not the error of the first failed one.
C2_FirstFailureReturned ==
  (pc = "returned" /\ ~forceCleanup) =>
     /\ (returned = NoError) <=> (Failures = {})
     /\ Failures # {} =>
          returned = IF FirstFailure.op \in ValidationOps
                       THEN ValidationError(FailedValidationNames)
                       ELSE Err(FirstFailure.op)

\* C2 witness: a run returned the error of an earlier call although a later
\* call failed too.
C2_Witness ==
  /\ pc = "returned" /\ ~forceCleanup
  /\ Cardinality(Failures) >= 2
  /\ FirstFailure.op \notin ValidationOps
  /\ returned = Err(FirstFailure.op)

\* C3 (as stated): the chain never terminates with a bootstrap handle set
\* and no bootstrap deletion attempted on that handle.
C3_Original ==
  (ChainEnded /\ commandContext.BootstrapCluster # NilCluster) => ChainDeletes # {}

\* C3 (amended): a chain that ended with the bootstrap handle set has called
\* DeleteBootstrapCluster on that handle, unless it ended in Create workload
\* cluster, Move cluster management or Install EKS-A components: a failure
\* there ends the chain with the handle set and no teardown attempted.
C3_CleanupReachability ==
  (ChainEnded /\ commandContext.BootstrapCluster # NilCluster) =>
     IF Last(executed) \in {CreateWorkloadClusterTask, MoveClusterManagementTask,
                            InstallEksaComponentsTask}
       THEN ChainDeletes = {} /\ commandContext.OriginalError # NoError
       ELSE /\ ChainDeletes # {}
            /\ Last(executed) \in {DeleteKindClusterTask, DeleteBootstrapClusterTask}

\* C3 witness: the bootstrap stage failed after the cluster existed and the
\* chain deleted the bootstrap cluster before it ended.
C3_Witness ==
  /\ ChainEnded
  /\ commandContext.BootstrapCluster # NilCluster
  /\ commandContext.OriginalError = Err("BootstrapSetup")
  /\ Last(executed) = DeleteKindClusterTask
  /\ ChainDeletes # {}

WorkloadStageOps ==
  {"CreateWorkloadCluster", "InstallNetworking", "InstallStorageClass",
   "InstallCapi", "InstallMachineHealthChecks"}

\* positions of the failed calls of the Create workload cluster stage
WorkloadStageFailures ==
  {i \in 1..Len(calls) :
     /\ ~calls[i].ok
     /\ calls[i].op \in WorkloadStageOps
     /\ \E j \in CallsOf("CreateWorkloadCluster") : j <= i}

\* C4: when a step of the Create workload cluster stage fails, that failure
\* is the captured error, the task returns no successor, no bootstrap
\* deletion is attempted and the bootstrap cluster still exists when Run
\* returns that error.
C4_WorkloadFailureLeavesBootstrap ==
  \A i \in WorkloadStageFailures :
     /\ commandContext.OriginalError = Err(calls[i].op)
     /\ task = Nil
     /\ Last(executed) = CreateWorkloadClusterTask
     /\ CallsOf("DeleteBootstrapCluster") \subseteq (IF forceCleanup THEN {1} ELSE {})
     /\ commandContext.BootstrapCluster # NilCluster
     /\ commandContext.ClusterSpec.Name \in kindClusters
     /\ pc = "returned" => returned = Err(calls[i].op)

\* C4 witness: Run returned after InstallStorageClass failed.
C4_Witness ==
  /\ pc = "returned"
  /\ \E i \in WorkloadStageFailures : calls[i].op = "InstallStorageClass"
  /\ commandContext.ClusterSpec.Name \in kindClusters

MutatingOps ==
  {"BootstrapClusterOpts", "CreateBootstrapCluster", "InstallCapi", "BootstrapSetup",
   "CreateWorkloadCluster", "InstallNetworking", "InstallStorageClass",
   "InstallMachineHealthChecks", "MoveCapi", "InstallCustomComponents",
   "CreateEKSAResources", "ResumeEKSAControllerReconcile", "InstallGitOps",
   "WriteClusterConfig"}

\* positions of the mutating calls the chain made
ChainMutations ==
  {i \in 1..Len(calls) : calls[i].op \in MutatingOps} \cup ChainDeletes

ValidationCalls == {i \in 1..Len(calls) : calls[i].op \in ValidationOps}

\* C5: validation gate -- a mutating call of the chain happens only after
\* the Validate task ran every validation and all passed; when a validation
\* fails the chain ends at Validate, no handle is set, no mutating call is
\* made and Run returns the runner's combined error.
C5_ValidationGate ==
  /\ \A i \in ChainMutations :
        /\ executed # <<>> /\ executed[1] = SetAndValidateTask
        /\ CallsOf("SetupAndValidateCreateCluster") # {}
        /\ \A v \in ValidationCalls : v < i /\ calls[v].ok
  /\ (\E v \in ValidationCalls : ~calls[v].ok) =>
        /\ executed = <<SetAndValidateTask>> /\ task = Nil
        /\ ChainMutations = {}
        /\ commandContext.BootstrapCluster = NilCluster
        /\ commandContext.WorkloadCluster = NilCluster
        /\ commandContext.OriginalError = ValidationError(FailedValidationNames)
        /\ pc = "returned" => returned = ValidationError(FailedValidationNames)

\* C5 witness: Run returned the combined error of two failed validations,
\* having run a validation that passed as well.
C5_Witness ==
  /\ pc = "returned"
  /\ Cardinality(FailedValidationNames) = 2
  /\ \E v \in ValidationCalls : calls[v].ok
  /\ returned = ValidationError(FailedValidationNames)

\* C6: chain termination -- a run executes at most 8 tasks, and as long as
\* a task is left to run the chain can take its next step.
C6_ChainTermination ==
  /\ Len(executed) <= 8
  /\ (pc = "chain" /\ task # Nil) => ENABLED Next

\* C6 witness: a chain that ended after exactly 8 tasks.
C6_Witness == ChainEnded /\ Len(executed) = 8

\* C7: addon isolation -- the Install addon manager task never calls
\* SetError and leaves the captured error as it was, its successor is Write
\* cluster config whether InstallGitOps failed or not, and a run whose only
\* failed call is InstallGitOps returns no error.
C7_AddonIsolation ==
  /\ [][(pc = "chain" /\ task = InstallAddonManagerTask) =>
          /\ setErrors' = setErrors
          /\ commandContext'.OriginalError = commandContext.OriginalError
          /\ task' = WriteClusterConfigTask]_vars
  /\ []((pc = "returned" /\ Failures = {} /\ \A i \in 1..Len(calls) :
            ~calls[i].ok => calls[i].op = "InstallGitOps")
          => returned = NoError)

\* C7 witness: Run returned no error although InstallGitOps failed, and the
\* config was written after that failure.
C7_Witness ==
  /\ pc = "returned"
  /\ returned = NoError
  /\ \E i \in CallsOf("InstallGitOps"), j \in CallsOf("WriteClusterConfig") :
        ~calls[i].ok /\ i < j

\* C8: when writing the cluster config fails, the write error is captured,
\* the chain goes on to Delete bootstrap cluster, which calls
\* DeleteBootstrapCluster on the handle, and Run returns the write error
\* whether that deletion succeeds or fails.
C8_WriteFailureStillCleansUp ==
  (\E w \in CallsOf("WriteClusterConfig") : ~calls[w].ok) =>
     /\ commandContext.OriginalError = Err("WriteClusterConfig")
     /\ \/ task = DeleteBootstrapClusterTask
        \/ /\ task = Nil
           /\ Last(executed) = DeleteBootstrapClusterTask
           /\ \E d \in ChainDeletes : \A w \in CallsOf("WriteClusterConfig") : w < d
     /\ pc = "returned" => returned = Err("WriteClusterConfig")

\* C8 witness: Run returned the write error after the deletion failed too.
C8_Witness ==
  /\ pc = "returned"
  /\ returned = Err("WriteClusterConfig")
  /\ \E d \in ChainDeletes : ~calls[d].ok

\* C9: force cleanup -- with forceCleanup the first call of a run is
\* DeleteBootstrapCluster on the cluster named by the spec, made before any
\* task runs; if it fails Run returns its error and nothing else happens;
\* without forceCleanup nothing is called before the first task.
C9_ForceCleanup ==
  /\ (forceCleanup /\ pc # "idle") =>
        /\ calls # <<>>
        /\ calls[1].op = "DeleteBootstrapCluster"
        /\ calls[1].arg = NamedCluster(clusterSpec)
        /\ ~calls[1].ok =>
              /\ pc = "returned"
              /\ returned = Err("DeleteBootstrapCluster")
              /\ Len(calls) = 1
              /\ executed = <<>>
        /\ executed = <<>> => Len(calls) = 1
  /\ (~forceCleanup /\ executed = <<>>) => calls = <<>>

\* C9 witness: a forced run whose deletion failed, returned at once.
C9_Witness ==
  /\ forceCleanup /\ pc = "returned"
  /\ calls = <<[op |-> "DeleteBootstrapCluster",
                arg |-> [Name |-> "c1", Kubeconfig |-> ""], ok |-> FALSE]>>
  /\ returned = Err("DeleteBootstrapCluster")

\* C10: log collection -- SaveLogs is not called while the chain runs; when
\* Run returns after the chain it has called SaveLogs exactly once if an
\* error was captured and not at all otherwise, and it returns the captured
\* error whatever SaveLogs did.
C10_SaveLogs ==
  /\ pc = "chain" => CallsOf("SaveLogs") = {}
  /\ (pc = "returned" /\ executed # <<>>) =>
        /\ Cardinality(CallsOf("SaveLogs")) =
             (IF commandContext.OriginalError # NoError THEN 1 ELSE 0)
        /\ returned = commandContext.OriginalError
        /\ CallsOf("SaveLogs") \subseteq {Len(calls)}

\* C10 witness: SaveLogs failed and Run returned the captured error.
C10_Witness ==
  /\ pc = "returned"
  /\ \E i \in CallsOf("SaveLogs") : ~calls[i].ok
  /\ returned = Err("MoveCapi")

\* every task of the forward path ran and every call of the run succeeded
HappyPath ==
  /\ ChainEnded
  /\ Last(executed) = DeleteBootstrapClusterTask
  /\ \A i \in 1..Len(calls) : calls[i].ok

\* C11 (as stated): when all eight stages succeed the workload handle is
\* set, the bootstrap handle is cleared and its cluster deleted, no error is
\* captured and the cluster config was written exactly once.
C11_Original ==
  HappyPath =>
     /\ commandContext.WorkloadCluster = WorkloadHandle(clusterSpec)
     /\ commandContext.BootstrapCluster = NilCluster
     /\ clusterSpec.Name \notin kindClusters
     /\ commandContext.OriginalError = NoError
     /\ Cardinality(CallsOf("WriteClusterConfig")) = 1

\* C11 (amended): when all eight stages succeed the workload handle is set,
\* the bootstrap cluster is deleted while the context's bootstrap handle
\* still holds the deleted cluster, no error is captured and the cluster
\* config was written exactly once.
C11_HappyPath ==
  HappyPath =>
     /\ commandContext.WorkloadCluster = WorkloadHandle(clusterSpec)
     /\ commandContext.BootstrapCluster = BootstrapHandle(clusterSpec)
     /\ clusterSpec.Name \notin kindClusters
     /\ commandContext.OriginalError = NoError
     /\ Cardinality(CallsOf("WriteClusterConfig")) = 1

\* C11 witness: Run returned no error after the eight tasks of the forward
\* path, every call having succeeded.
C11_Witness ==
  /\ HappyPath
  /\ Len(executed) = 8
  /\ pc = "returned"
  /\ returned = NoError

\* C12: within a run the workload handle changes only from absent to set,
\* and only in a step that starts with the bootstrap handle set; the
\* bootstrap handle changes only from absent to set.
C12_HandleAssignment ==
  [][pc = "chain" =>
       /\ commandContext'.WorkloadCluster # commandContext.WorkloadCluster =>
            /\ commandContext.WorkloadCluster = NilCluster
            /\ commandContext.BootstrapCluster # NilCluster
       /\ commandContext'.BootstrapCluster # commandContext.BootstrapCluster =>
            commandContext.BootstrapCluster = NilCluster]_vars

\* C12 witness: both handles are set and later tasks have run.
C12_Witness ==
  /\ commandContext.BootstrapCluster = BootstrapHandle(clusterSpec)
  /\ commandContext.WorkloadCluster = WorkloadHandle(clusterSpec)
  /\ InstallEksaComponentsTask \in Range(executed)

\* C13: no call of the main path follows a failure that was captured; once
\* an error is captured a step of the run calls nothing but
\* DeleteBootstrapCluster and SaveLogs.
C13_NoProgressAfterError ==
  /\ [](\A i \in Failures : \A j \in (i + 1)..Len(calls) :
           calls[j].op \notin MutatingOps)
  /\ [][(pc = "chain" /\ commandContext.OriginalError # NoError) =>
          \A j \in (Len(calls) + 1)..Len(calls') :
             calls'[j].op \in {"DeleteBootstrapCluster", "SaveLogs"}]_vars

\* C13 witness: after a captured failure the run still deleted the bootstrap
\* cluster and collected logs.
C13_Witness ==
  /\ commandContext.OriginalError = Err("InstallCapi")
  /\ \E i \in Failures, d \in CallsOf("DeleteBootstrapCluster"), l \in CallsOf("SaveLogs") :
        i < d /\ d < l

\* the stages of the forward path, in order
Forward ==
  <<SetAndValidateTask, CreateBootStrapClusterTask, CreateWorkloadClusterTask,
    MoveClusterManagementTask, InstallEksaComponentsTask, InstallAddonManagerTask,
    WriteClusterConfigTask, DeleteBootstrapClusterTask>>

\* C14: the tasks run in the order of the forward path (DeleteKindClusterTask
\* taking the third place on the bootstrap failure path); Create bootstrap
\* cluster .. Install addon manager are entered only with every call so far
\* successful; Write cluster config follows Install addon manager and Delete
\* bootstrap cluster follows Write cluster config whatever their outcome.
C14_ForwardOrder ==
  /\ \A i \in 1..Len(executed) :
        \/ executed[i] = Forward[i]
        \/ i = 3 /\ executed[i] = DeleteKindClusterTask
  /\ (pc = "chain" /\ task # Nil) =>
        \/ task = Forward[Len(executed) + 1]
        \/ task = DeleteKindClusterTask
  /\ (pc = "chain" /\ task \in {Forward[k] : k \in 2..6}) =>
        \A i \in 1..Len(calls) : calls[i].ok
  /\ (executed # <<>> /\ Last(executed) = InstallAddonManagerTask) =>
        task = WriteClusterConfigTask
  /\ (executed # <<>> /\ Last(executed) = WriteClusterConfigTask) =>
        task = DeleteBootstrapClusterTask

\* C14 witness: the eight stages ran in order although InstallGitOps and
\* the config write failed.
C14_Witness ==
  /\ executed = Forward
  /\ \E i \in CallsOf("InstallGitOps") : ~calls[i].ok
  /\ \E i \in CallsOf("WriteClusterConfig") : ~calls[i].ok

BootstrapStageOps ==
  {"BootstrapClusterOpts", "CreateBootstrapCluster", "InstallCapi", "BootstrapSetup"}

\* positions of the failed calls of the Create bootstrap cluster stage
BootstrapStageFailures ==
  {i \in 1..Len(calls) :
     /\ ~calls[i].ok
     /\ calls[i].op \in BootstrapStageOps
     /\ CallsOf("CreateWorkloadCluster") = {}}

\* positions of the DeleteBootstrapCluster calls made by tasks
TaskDeletes ==
  CallsOf("DeleteBootstrapCluster") \ (IF forceCleanup THEN {1} ELSE {})

\* C15: when the Create bootstrap cluster stage fails, Create workload
\* cluster is never entered; after a failure of BootstrapClusterOpts or
\* CreateBootstrapCluster no handle is set and the chain ends without a
\* DeleteBootstrapCluster call; after a failure of InstallCapi or
\* BootstrapSetup the handle is set and the chain calls
\* DeleteBootstrapCluster on it before it ends.
C15_BootstrapFailurePath ==
  \A i \in BootstrapStageFailures :
     /\ CreateWorkloadClusterTask \notin Range(executed)
     /\ task \in {Nil, DeleteKindClusterTask}
     /\ calls[i].op \in {"BootstrapClusterOpts", "CreateBootstrapCluster"} =>
           /\ commandContext.BootstrapCluster = NilCluster
           /\ TaskDeletes = {}
     /\ calls[i].op \in {"InstallCapi", "BootstrapSetup"} =>
           /\ commandContext.BootstrapCluster # NilCluster
           /\ task = Nil =>
                \E d \in TaskDeletes :
                   d > i /\ calls[d].arg = commandContext.BootstrapCluster
     /\ task = Nil =>
           (TaskDeletes # {} <=> commandContext.BootstrapCluster # NilCluster)

\* C15 witness: CreateBootstrapCluster failed, DeleteKindClusterTask ran and
\* Run returned without any DeleteBootstrapCluster call.
C15_Witness ==
  /\ pc = "returned"
  /\ \E i \in BootstrapStageFailures : calls[i].op = "CreateBootstrapCluster"
  /\ Last(executed) = DeleteKindClusterTask
  /\ CallsOf("DeleteBootstrapCluster") = {}

\* C16: success is marked iff the Delete bootstrap cluster task ran and no
\* error is captured; once Run returned, success is marked iff it returned
\* no error; a deletion failure on a run without other failures is the
\* error captured and returned, and no success is marked.
C16_SuccessMarking ==
  /\ markSuccess <=>
        /\ DeleteBootstrapClusterTask \in Range(executed)
        /\ commandContext.OriginalError = NoError
  /\ pc = "returned" => (markSuccess <=> returned = NoError)
  /\ (Failures # {} /\ \A i \in Failures : i \in TaskDeletes
        /\ DeleteBootstrapClusterTask \in Range(executed)) =>
        /\ commandContext.OriginalError = Err("DeleteBootstrapCluster")
        /\ ~markSuccess
        /\ pc = "returned" => returned = Err("DeleteBootstrapCluster")

\* C16 witness: a run whose only failure is the final deletion returned the
\* deletion error and marked no success.
C16_Witness ==
  /\ pc = "returned"
  /\ Len(executed) = 8
  /\ Failures # {} /\ Failures \subseteq TaskDeletes
  /\ returned = Err("DeleteBootstrapCluster")
  /\ ~markSuccess

\* the place of a task in the successor relation
TaskRank(t) ==
  CASE t = SetAndValidateTask         -> 1
    [] t = CreateBootStrapClusterTask -> 2
    [] t = CreateWorkloadClusterTask  -> 3
    [] t = MoveClusterManagementTask  -> 4
    [] t = InstallEksaComponentsTask  -> 5
    [] t = InstallAddonManagerTask    -> 6
    [] t = WriteClusterConfigTask     -> 7
    [] t = DeleteBootstrapClusterTask -> 8
    [] t = DeleteKindClusterTask      -> 9

\* C17: a step of the chain runs exactly the one task that is due; no task
\* runs twice in a run; the task due is never one that already ran, and a
\* task's successor always ranks after it (the successor relation is
\* acyclic).
C17_OneAtATimeNoRepeat ==
  /\ [](\A i, j \in 1..Len(executed) : i # j => executed[i] # executed[j])
  /\ [](pc = "chain" => task \notin Range(executed))
  /\ [][(pc = "chain" /\ executed' # executed) =>
          /\ executed' = Append(executed, task)
          /\ task' # Nil => TaskRank(task') > TaskRank(task)]_vars

\* C17 witness: DeleteKindClusterTask ended a chain after its deletion failed.
C17_Witness ==
  /\ ChainEnded
  /\ Last(executed) = DeleteKindClusterTask
  /\ \E d \in TaskDeletes : ~calls[d].ok

\* the orders in which a list of validations can be registered
Orders(validations) ==
  {[i \in 1..Len(validations) |-> validations[p[i]]] :
     p \in Permutations(1..Len(validations))}

\* C18: once the Validate task ran, every registered validation was called
\* (also after a failed one); with k of them failing, no validation error is
\* reported iff k = 0 and otherwise the one error reported names exactly the
\* k failing validations, the same for every order of registration.
C18_ValidationAggregation ==
  SetAndValidateTask \in Range(executed) =>
    LET n       == Len(runnerValidations)
        off     == IF forceCleanup THEN 1 ELSE 0
        failing == {i \in 1..n : ~runnerValidations[i].ok}
        names   == {runnerValidations[i].Name : i \in failing}
    IN  /\ n >= 1
        /\ Len(calls) >= off + n
        /\ \A i \in 1..n :
              /\ calls[off + i].op = runnerValidations[i].op
              /\ calls[off + i].ok = runnerValidations[i].ok
        /\ Cardinality(ValidationCalls) = n
        /\ failing = {} => \A i \in 1..Len(setErrors) : setErrors[i].src # "validations"
        /\ failing # {} =>
              /\ setErrors = <<ValidationError(names)>>
              /\ commandContext.OriginalError = ValidationError(names)
              /\ Cardinality(names) = Cardinality(failing)
        /\ \A q \in Orders(runnerValidations) :
              RunnerError(q) = RunnerError(runnerValidations)

\* C18 witness: three validations were registered, the first and the last
\* failed, all three were called and the error names the two.
C18_Witness ==
  /\ SetAndValidateTask \in Range(executed)
  /\ Len(runnerValidations) = 3
  /\ ~runnerValidations[1].ok /\ runnerValidations[2].ok /\ ~runnerValidations[3].ok
  /\ Cardinality(ValidationCalls) = 3
  /\ commandContext.OriginalError =
       ValidationError({ProviderValidationName, AddonValidationName(2)})

\* C19: no step removes a workload cluster or changes the workload handle
\* of a run once it is set; after a failed MoveCapi or a failed Install
\* EKS-A components call the workload cluster exists and its handle is set.
C19_NoWorkloadRollback ==
  /\ [][/\ workloadClusters \subseteq workloadClusters'
        /\ (pc = "chain" /\ commandContext.WorkloadCluster # NilCluster) =>
              commandContext'.WorkloadCluster = commandContext.WorkloadCluster]_vars
  /\ []((\E i \in Failures : calls[i].op \in
            {"MoveCapi", "InstallCustomComponents", "CreateEKSAResources",
             "ResumeEKSAControllerReconcile"}) =>
          /\ commandContext.WorkloadCluster = WorkloadHandle(clusterSpec)
          /\ clusterSpec.Name \in workloadClusters)

\* C19 witness: Run returned the MoveCapi error and the workload cluster is
\* still there.
C19_Witness ==
  /\ pc = "returned"
  /\ returned = Err("MoveCapi")
  /\ commandContext.WorkloadCluster = WorkloadHandle(clusterSpec)
  /\ clusterSpec.Name \in workloadClusters

\* C20: a Run with forceCleanup for a name whose bootstrap cluster was left
\* behind first calls DeleteBootstrapCluster for that name; if that fails the
\* run returns without running a task; CreateBootstrapCluster is called only
\* after that deletion succeeded, and until it is called no bootstrap cluster
\* of that name exists.
C20_RetryAfterOrphan ==
  (forceCleanup /\ clusterSpec.Name \in staleClusters) =>
     /\ calls # <<>>
     /\ calls[1].op = "DeleteBootstrapCluster"
     /\ calls[1].arg = NamedCluster(clusterSpec)
     /\ ~calls[1].ok =>
           /\ pc = "returned"
           /\ returned = Err("DeleteBootstrapCluster")
           /\ executed = <<>>
           /\ CallsOf("CreateBootstrapCluster") = {}
           /\ clusterSpec.Name \in kindClusters
     /\ CallsOf("CreateBootstrapCluster") # {} => calls[1].ok
     /\ (calls[1].ok /\ CallsOf("CreateBootstrapCluster") = {}) =>
           clusterSpec.Name \notin kindClusters

\* C20 witness: the second run, forced, found a bootstrap cluster of its
\* name left behind, deleted it and created a new one.
C20_Witness ==
  /\ runs = 2
  /\ forceCleanup
  /\ clusterSpec.Name \in staleClusters
  /\ \E i \in CallsOf("CreateBootstrapCluster") : calls[i].ok /\ i > 1

\* C21 (as stated): the cluster spec of the context is never modified by a
\* task, so the spec Write cluster config observes equals the one passed
\* to Run.
C21_Original ==
  /\ pc = "chain" => commandContext.ClusterSpec = clusterSpec
  /\ CallsOf("WriteClusterConfig") # {} => commandContext.ClusterSpec = clusterSpec

\* C21 (amended): the only task that modifies the cluster spec of the context
\* is InstallEksaComponentsTask, which pauses reconciliation on it after
\* InstallCustomComponents succeeded; no task changes the name of the spec,
\* and the spec is the one passed to Run until InstallEksaComponentsTask
\* pauses it.
C21_SpecOnlyPaused ==
  /\ [][(pc = "chain" /\ commandContext'.ClusterSpec # commandContext.ClusterSpec) =>
          /\ task = InstallEksaComponentsTask
          /\ commandContext'.ClusterSpec.Name = commandContext.ClusterSpec.Name
          /\ \E i \in CallsOf("InstallCustomComponents")' : calls'[i].ok]_vars
  /\ [](pc = "chain" =>
          /\ commandContext.ClusterSpec.Name = clusterSpec.Name
          /\ CallsOf("ClusterSpec.PauseReconcile") = {} =>
               commandContext.ClusterSpec = clusterSpec)

\* C21 witness: Write cluster config ran with a spec in the context that
\* InstallEksaComponentsTask had paused, so it differs from the one passed
\* to Run.
C21_Witness ==
  /\ CallsOf("WriteClusterConfig") # {}
  /\ CallsOf("ClusterSpec.PauseReconcile") # {}
  /\ commandContext.ClusterSpec # clusterSpec
  /\ commandContext.ClusterSpec.Name = clusterSpec.Name

\* some call of op made before position i succeeded
SucceededBefore(op, i) == \E j \in CallsOf(op) : j < i /\ calls[j].ok

\* C22: CreateEKSAResources is called only after InstallCustomComponents
\* succeeded and after reconciliation was paused on the cluster spec and on
\* the datacenter config; ResumeEKSAControllerReconcile is called only after
\* CreateEKSAResources succeeded; when CreateEKSAResources fails the chain
\* ends with reconciliation still paused and resume never called; Install
\* addon manager is entered only after resume succeeded.
C22_InstallEksaOrder ==
  /\ \A c \in CallsOf("CreateEKSAResources") :
        \E p \in CallsOf("ClusterSpec.PauseReconcile"),
           d \in CallsOf("DatacenterConfig.PauseReconcile") :
           /\ p < c /\ d < c
           /\ SucceededBefore("InstallCustomComponents", p)
           /\ SucceededBefore("InstallCustomComponents", d)
  /\ \A r \in CallsOf("ResumeEKSAControllerReconcile") :
        SucceededBefore("CreateEKSAResources", r)
  /\ (\E c \in CallsOf("CreateEKSAResources") : ~calls[c].ok) =>
        /\ CallsOf("ResumeEKSAControllerReconcile") = {}
        /\ ChainEnded
        /\ Last(executed) = InstallEksaComponentsTask
        /\ commandContext.ClusterSpec.Paused
        /\ datacenterPaused
        /\ commandContext.OriginalError = Err("CreateEKSAResources")
  /\ (pc = "chain" /\ task = InstallAddonManagerTask) =>
        /\ Last(executed) = InstallEksaComponentsTask
        /\ SucceededBefore("ResumeEKSAControllerReconcile", Len(calls) + 1)
  /\ InstallAddonManagerTask \in Range(executed) =>
        SucceededBefore("ResumeEKSAControllerReconcile", Len(calls) + 1)

\* C22 witness: CreateEKSAResources failed after the two pauses and the run
\* returned its error without a call of resume.
C22_Witness ==
  /\ pc = "returned"
  /\ returned = Err("CreateEKSAResources")
  /\ CallsOf("ClusterSpec.PauseReconcile") # {}
  /\ CallsOf("DatacenterConfig.PauseReconcile") # {}
  /\ CallsOf("ResumeEKSAControllerReconcile") = {}
  /\ commandContext.ClusterSpec.Paused /\ datacenterPaused

\* positions of the InstallCapi calls made on a cluster of the given kind
CapiOn(kubeconfig) ==
  {i \in CallsOf("InstallCapi") : calls[i].arg.Kubeconfig = kubeconfig}

\* the sub-steps (sets of call positions) are each carried out at most once,
\* and each one directly follows a successful call of the one before it
InOrder(steps) ==
  /\ \A k \in 1..Len(steps) : Cardinality(steps[k]) <= 1
  /\ \A k \in 2..Len(steps) : \A i \in steps[k] :
        (i - 1) \in steps[k - 1] /\ calls[i - 1].ok

\* every sub-step was carried out and succeeded
AllSucceeded(steps) ==
  \A k \in 1..Len(steps) : \E i \in steps[k] : calls[i].ok

BootstrapSteps ==
  <<CallsOf("BootstrapClusterOpts"), CallsOf("CreateBootstrapCluster"),
    CapiOn("kind"), CallsOf("BootstrapSetup")>>

\* C23: the Create bootstrap cluster stage calls BootstrapClusterOpts,
\* CreateBootstrapCluster, InstallCapi on the bootstrap cluster and
\* BootstrapSetup in that order, each only if the one before succeeded; the
\* bootstrap handle is set exactly when CreateBootstrapCluster succeeded; the
\* Create workload cluster task follows only if all four succeeded.
C23_BootstrapSubSteps ==
  /\ InOrder(BootstrapSteps)
  /\ pc # "idle" =>
       (commandContext.BootstrapCluster # NilCluster
          <=> \E i \in CallsOf("CreateBootstrapCluster") : calls[i].ok)
  /\ commandContext.BootstrapCluster \in {NilCluster, BootstrapHandle(clusterSpec)}
  /\ ((pc = "chain" /\ task = CreateWorkloadClusterTask)
        \/ CreateWorkloadClusterTask \in Range(executed)) =>
       AllSucceeded(BootstrapSteps)
  /\ (pc = "chain" /\ task = CreateWorkloadClusterTask) =>
       Last(executed) = CreateBootStrapClusterTask

\* C23 witness: InstallCapi failed on the bootstrap cluster after
\* CreateBootstrapCluster succeeded: the handle is set and BootstrapSetup was
\* not called.
C23_Witness ==
  /\ \E i \in CapiOn("kind") : ~calls[i].ok
  /\ \E i \in CallsOf("CreateBootstrapCluster") : calls[i].ok
  /\ commandContext.BootstrapCluster = BootstrapHandle(clusterSpec)
  /\ CallsOf("BootstrapSetup") = {}
  /\ CreateBootStrapClusterTask \in Range(executed)

WorkloadSteps ==
  <<CallsOf("CreateWorkloadCluster"), CallsOf("InstallNetworking"),
    CallsOf("InstallStorageClass"), CapiOn("workload"),
    CallsOf("InstallMachineHealthChecks")>>

\* C24: the Create workload cluster stage calls CreateWorkloadCluster,
\* InstallNetworking, InstallStorageClass, InstallCapi on the workload
\* cluster and InstallMachineHealthChecks in that order; the first failing
\* sub-step is the captured error and ends the chain with no later sub-step;
\* the workload handle is set as soon as CreateWorkloadCluster succeeded and
\* stays set when a later sub-step fails; MoveCapi is called only after all
\* five succeeded.
C24_WorkloadSubSteps ==
  /\ InOrder(WorkloadSteps)
  /\ \A i \in WorkloadStageFailures :
        /\ commandContext.OriginalError = Err(calls[i].op)
        /\ ChainEnded
        /\ Last(executed) = CreateWorkloadClusterTask
        /\ \A j \in (i + 1)..Len(calls) : calls[j].op = "SaveLogs"
  /\ pc # "idle" =>
       (commandContext.WorkloadCluster # NilCluster
          <=> \E i \in CallsOf("CreateWorkloadCluster") : calls[i].ok)
  /\ commandContext.WorkloadCluster \in {NilCluster, WorkloadHandle(clusterSpec)}
  /\ \A m \in CallsOf("MoveCapi") :
        /\ AllSucceeded(WorkloadSteps)
        /\ \A k \in 1..Len(WorkloadSteps) : \A i \in WorkloadSteps[k] : i < m

\* C24 witness: InstallStorageClass failed after CreateWorkloadCluster and
\* InstallNetworking succeeded; the run returned that error with the workload
\* handle set.
C24_Witness ==
  /\ pc = "returned"
  /\ returned = Err("InstallStorageClass")
  /\ \E i \in CallsOf("InstallNetworking") : calls[i].ok
  /\ commandContext.WorkloadCluster = WorkloadHandle(clusterSpec)
  /\ CapiOn("workload") = {}

\* C25: the tasks of one run call DeleteBootstrapCluster at most once (the
\* forceCleanup deletion not counted), and DeleteKindClusterTask and
\* DeleteBootstrapClusterTask are never both executed in a run, each at most
\* once.
C25_SingleChainDeletion ==
  /\ Cardinality(TaskDeletes) <= 1
  /\ ~(/\ DeleteKindClusterTask \in Range(executed)
       /\ DeleteBootstrapClusterTask \in Range(executed))
  /\ \A t \in {DeleteKindClusterTask, DeleteBootstrapClusterTask} :
        Cardinality({k \in 1..Len(executed) : executed[k] = t}) <= 1
  /\ TaskDeletes # {} =>
        \/ DeleteKindClusterTask \in Range(executed)
        \/ DeleteBootstrapClusterTask \in Range(executed)

\* C25 witness: a forced run deleted the stale cluster before the chain and
\* its DeleteKindClusterTask deleted the new bootstrap cluster, the one
\* deletion made by a task.
C25_Witness ==
  /\ forceCleanup
  /\ Cardinality(CallsOf("DeleteBootstrapCluster")) = 2
  /\ Cardinality(TaskDeletes) = 1
  /\ DeleteKindClusterTask \in Range(executed)
  /\ ChainEnded

\* the calls that are made on the workload cluster once the management
\* components are to be moved
WorkloadClusterOps ==
  {"InstallCustomComponents", "CreateEKSAResources",
   "ResumeEKSAControllerReconcile", "InstallGitOps"}

\* C26: when MoveClusterManagementTask, InstallEksaComponentsTask or
\* InstallAddonManagerTask runs both handles are set, and when
\* DeleteBootstrapClusterTask runs the bootstrap handle is set, so that the
\* calls these tasks make receive the handles of the run's clusters.
C26_HandlesSetWhereUsed ==
  /\ \A t \in {MoveClusterManagementTask, InstallEksaComponentsTask,
               InstallAddonManagerTask} :
        ((pc = "chain" /\ task = t) \/ t \in Range(executed)) =>
           /\ commandContext.BootstrapCluster = BootstrapHandle(clusterSpec)
           /\ commandContext.WorkloadCluster = WorkloadHandle(clusterSpec)
  /\ ((pc = "chain" /\ task = DeleteBootstrapClusterTask)
        \/ DeleteBootstrapClusterTask \in Range(executed)) =>
           commandContext.BootstrapCluster = BootstrapHandle(clusterSpec)
  /\ \A i \in 1..Len(calls) :
        /\ calls[i].op = "MoveCapi" => calls[i].arg = BootstrapHandle(clusterSpec)
        /\ calls[i].op \in WorkloadClusterOps =>
              calls[i].arg = WorkloadHandle(clusterSpec)
  /\ DeleteBootstrapClusterTask \in Range(executed) =>
        \A i \in TaskDeletes : calls[i].arg = BootstrapHandle(clusterSpec)

\* C26 witness: the three tasks and DeleteBootstrapClusterTask have run, the
\* deletion having been called on the bootstrap handle.
C26_Witness ==
  /\ {MoveClusterManagementTask, InstallEksaComponentsTask, InstallAddonManagerTask,
      DeleteBootstrapClusterTask} \subseteq Range(executed)
  /\ \E i \in TaskDeletes : calls[i].arg = BootstrapHandle(clusterSpec)
  /\ \E i \in CallsOf("InstallGitOps") : calls[i].arg = WorkloadHandle(clusterSpec)

ChainLog == IF forceCleanup THEN Tail(calls) ELSE calls

\* the outcome a collaborator call had in a log (TRUE when it was not made);
\* kubeconfig = "" matches a call on any cluster
OutcomeIn(log, op, kubeconfig) ==
  LET made == {i \in 1..Len(log) :
                 /\ log[i].op = op
                 /\ kubeconfig # "" => log[i].arg.Kubeconfig = kubeconfig}
  IN  \A i \in made : log[i].ok

\* the outcomes of the addon-manager validations in a log
AddonOutcomesIn(log) ==
  LET n == Cardinality({i \in 1..Len(log) :
                          /\ log[i].op \in ValidationOps
                          /\ log[i].op # "SetupAndValidateCreateCluster"})
  IN  [i \in 1..n |-> OutcomeIn(log, AddonValidationOp(i), "")]

\* task t run from state s, its collaborators answering as they did in log
ReplayTask(s, t, log) ==
  CASE t = SetAndValidateTask ->
         SetAndValidateTaskRun(s, OutcomeIn(log, "SetupAndValidateCreateCluster", ""),
                               AddonOutcomesIn(log))
    [] t = CreateBootStrapClusterTask ->
         CreateBootStrapClusterTaskRun(s, OutcomeIn(log, "BootstrapClusterOpts", ""),
                                       OutcomeIn(log, "CreateBootstrapCluster", ""),
                                       OutcomeIn(log, "InstallCapi", "kind"),
                                       OutcomeIn(log, "BootstrapSetup", ""))
    [] t = DeleteKindClusterTask ->
         DeleteKindClusterTaskRun(s, OutcomeIn(log, "DeleteBootstrapCluster", ""))
    [] t = CreateWorkloadClusterTask ->
         CreateWorkloadClusterTaskRun(s, OutcomeIn(log, "CreateWorkloadCluster", ""),
                                      OutcomeIn(log, "InstallNetworking", ""),
                                      OutcomeIn(log, "InstallStorageClass", ""),
                                      OutcomeIn(log, "InstallCapi", "workload"),
                                      OutcomeIn(log, "InstallMachineHealthChecks", ""))
    [] t = MoveClusterManagementTask ->
         MoveClusterManagementTaskRun(s, OutcomeIn(log, "MoveCapi", ""))
    [] t = InstallEksaComponentsTask ->
         InstallEksaComponentsTaskRun(s, OutcomeIn(log, "InstallCustomComponents", ""),
                                      OutcomeIn(log, "CreateEKSAResources", ""),
                                      OutcomeIn(log, "ResumeEKSAControllerReconcile", ""))
    [] t = InstallAddonManagerTask ->
         InstallAddonManagerTaskRun(s, OutcomeIn(log, "InstallGitOps", ""))
    [] t = WriteClusterConfigTask ->
         WriteClusterConfigTaskRun(s, OutcomeIn(log, "WriteClusterConfig", ""))
    [] t = DeleteBootstrapClusterTask ->
         DeleteBootstrapClusterTaskRun(s, OutcomeIn(log, "DeleteBootstrapCluster", ""))

\* the chain run from task t in state s against the outcomes of log
RECURSIVE ReplayChain(_, _, _, _)
ReplayChain(s, t, done, log) ==
  IF t = Nil \/ Len(done) >= 9
    THEN [end |-> s, executed |-> done]
    ELSE LET r == ReplayTask(s, t, log)
         IN  ReplayChain(r, r.next, Append(done, t), log)

\* a whole run without forceCleanup against the outcomes of log
ReplayWithoutForce(log) ==
  LET begin == RunBegin(Cur, clusterSpec, FALSE, TRUE)
      chain == ReplayChain(begin, begin.next, <<>>, log)
  IN  [end |-> RunEnd(chain.end, OutcomeIn(log, "SaveLogs", "")),
       executed |-> chain.executed]

\* C28: after a successful forceCleanup deletion the chain starts from
\* SetAndValidateTask with both handles absent, no captured error and
\* Rollback false, as it does without forceCleanup; and a run that returned
\* executed the tasks, made the calls and returned the error that a run
\* without forceCleanup has for the same collaborator outcomes.
C28_ForceCleanupTransparent ==
  /\ (pc = "chain" /\ executed = <<>>) =>
        /\ task = SetAndValidateTask
        /\ commandContext = NewCommandContext(clusterSpec)
        /\ commandContext.BootstrapCluster = NilCluster
        /\ commandContext.WorkloadCluster = NilCluster
        /\ commandContext.OriginalError = NoError
        /\ commandContext.Rollback = FALSE
        /\ ChainLog = <<>>
  /\ (pc = "returned" /\ executed # <<>>) =>
        LET replay == ReplayWithoutForce(ChainLog)
        IN  /\ executed = replay.executed
            /\ returned = replay.end.ret
            /\ ChainLog = replay.end.calls
            /\ commandContext = replay.end.cc
            /\ setErrors = replay.end.setErrors
            /\ markSuccess = replay.end.markSuccess

\* C28 witness: a run whose forceCleanup deletion succeeded went through the
\* chain and returned the error of a failed MoveCapi.
C28_Witness ==
  /\ forceCleanup
  /\ calls[1].op = "DeleteBootstrapCluster" /\ calls[1].ok
  /\ pc = "returned"
  /\ returned = Err("MoveCapi")
  /\ Len(executed) = 4

====
